---- MODULE Spec2Model ----
(***************************************************************************)
(* Pack version check of temporalio/pack-dependency-actions.               *)
(*                                                                         *)
(* The model follows danger/pack-version-check.ts: checkPackVersion reads  *)
(* the pull request's branch name and git file lists from Danger, tests    *)
(* the allow pattern, tests whether the version file was touched, reads    *)
(* the version at origin/main, in the working tree and at the merge base   *)
(* (getVersions), and classifies them (evaluateBlockingConditions).        *)
(*                                                                         *)
(* A text is a sequence of characters; a commit identifier is abstracted   *)
(* to one character drawn from Shas.                                       *)
(***************************************************************************)
EXTENDS Integers, Sequences, FiniteSets, TLC

\* ------------------------------------------------------------------ bounds
NumShas == 3
\* evaluations of one pull request in a row
MaxEvaluations == 2
\* pipeline jobs in a row on one working copy
MaxJobs == 2

ShaNames == <<"a", "b", "c", "d", "e", "f">>
Shas == {ShaNames[i] : i \in 1..NumShas}

\* ------------------------------------------------------------- JS values
Null == <<"null">>
Undefined == <<"undefined">>
EmptyString == <<>>

\* JavaScript truthiness of a string-or-null value (!v is ~Truthy(v))
Truthy(v) == v # Null /\ v # Undefined /\ v # EmptyString

\* ------------------------------------------------------------------ texts
NoFile == <<"ENOENT">>
Whitespace == {" ", "\n"}

RECURSIVE TrimStart(_)
TrimStart(s) ==
  IF s = <<>> THEN <<>>
  ELSE IF Head(s) \in Whitespace THEN TrimStart(Tail(s))
  ELSE s

RECURSIVE TrimEnd(_)
TrimEnd(s) ==
  IF s = <<>> THEN <<>>
  ELSE IF s[Len(s)] \in Whitespace THEN TrimEnd(SubSeq(s, 1, Len(s) - 1))
  ELSE s

\* String.prototype.trim
Trim(s) == TrimEnd(TrimStart(s))

\* text.split('\n')[0]: the characters before the first newline
RECURSIVE SplitFirst(_)
SplitFirst(s) ==
  IF s = <<>> THEN <<>>
  ELSE IF Head(s) = "\n" THEN <<>>
  ELSE <<Head(s)>> \o SplitFirst(Tail(s))

\* head -n 1: the first line, its newline included
RECURSIVE HeadN1(_)
HeadN1(s) ==
  IF s = <<>> THEN <<>>
  ELSE IF Head(s) = "\n" THEN <<"\n">>
  ELSE <<Head(s)>> \o HeadN1(Tail(s))

\* stdout of `git show <ref>:<file> 2>/dev/null | head -n 1`: a missing file
\* makes git show fail, but the pipeline's status is head's, so the output
\* is empty and nothing is thrown
GitShowHead(file) == IF file = NoFile THEN <<>> ELSE HeadN1(file)

\* Contents a version file can have at one reference point
FileContents ==
  {NoFile, <<>>}
    \cup {<<s, "\n">> : s \in Shas}
    \cup {<<s, "\n", "#", "\n">> : s \in Shas}
    \cup {<<" ", s, " ", "\n">> : s \in Shas}
    \cup {<<"\n", s, "\n">> : s \in Shas}

\* ------------------------------------------------------- danger inputs
DefaultFilePath == ".ui-sha"
\* a config without a filePath property
NoFilePath == "undefined"
OtherPath == "src/app.js"

\* '^(update|generate|auto)-.*' as the alternation of its first group;
\* the empty pattern is the empty string
DefaultAllowPattern == {"update", "generate", "auto"}
NoAllowPattern == {}
AllowPatterns == {DefaultAllowPattern, NoAllowPattern}

BranchNames ==
  { <<"update", "-", "ui">>,
    <<"feature", "-", "update">>,
    <<"updates">> }

\* the text of the first k pieces of a branch name
RECURSIVE Joined(_, _)
Joined(name, k) == IF k = 0 THEN "" ELSE Joined(name, k - 1) \o name[k]

\* new RegExp(allowPattern).test(branchName) for '^(w1|w2|..)-.*': the name
\* starts with one of the words and a hyphen follows the word
RegExpTest(pattern, name) ==
  \E k \in 1..(Len(name) - 1) :
    /\ Joined(name, k) \in pattern
    /\ name[k + 1] = "-"

\* status of the version file in the pull request's diff (merge base..head)
DiffStatus(base, head) ==
  IF base = NoFile /\ head = NoFile THEN "none"
  ELSE IF base = NoFile THEN "created"
  ELSE IF head = NoFile THEN "deleted"
  ELSE IF base # head THEN "modified"
  ELSE "none"

\* ------------------------------------------------------------- reasons
ReasonAllowed == "Branch is allowed to modify versions"
ReasonUntouched == "PR hasn't modified the version file"
ReasonMatch == "Versions match"
ReasonBothMissing == "Version file doesn't exist in either branch"
ReasonNewFile == "New version file added (doesn't exist on main)"
ReasonDeleted == "Version file was deleted"
ReasonNoBase == "PR introduced version file that doesn't exist at merge base"
ReasonBranchOnly == "PR modified version while main hasn't changed (invalid version or test)"
ReasonDivergent == "Both PR and main have modified the version file differently (divergent versions)"

Reasons ==
  {ReasonAllowed, ReasonUntouched, ReasonMatch, ReasonBothMissing,
   ReasonNewFile, ReasonDeleted, ReasonNoBase, ReasonBranchOnly,
   ReasonDivergent}

\* ------------------------------------------------------------------ state
VARIABLES
  trunkFile,       \* contents of origin/main:<filePath>
  workFile,        \* contents of <filePath> in the working tree (PR head)
  baseFile,        \* contents of <filePath> at merge-base(HEAD, origin/main)
  mergeBaseOK,     \* `git merge-base HEAD origin/main` succeeds
  pipeOK,          \* the shell can run `git show .. | head -n 1`
  branchName,      \* danger.github.pr.head.ref
  allowPattern,    \* options.allowPattern
  modified_files,  \* danger.git.modified_files
  created_files,   \* danger.git.created_files
  deleted_files,   \* danger.git.deleted_files
  pc,              \* position of checkPackVersion
  versions,        \* the Versions record of getVersions
  result,          \* the CheckResult returned
  markdowns,       \* reasons of the comments posted with markdown()
  fails,           \* reasons of the failures posted with fail()
  evaluations,     \* number of the evaluation in progress
  previous         \* the CheckResult of the evaluation before this one

\* state of the callers and of the JavaScript twin of the plugin
VARIABLES
  twin,            \* what the JavaScript plugin returned and posted
  multi,           \* the local variables of checkMultiplePackVersions
  sweep,           \* the state of the fleet sweep
  repo             \* the pin files of the repository, by path

\* state of the pack pipeline (pack-dependency/index.js)
VARIABLES
  pinFile,         \* contents of <filePath> in the downstream working copy
  manifest,        \* package.json of the downstream working copy
  destFiles,       \* names of the files in the pack destination
  tempDirs,        \* temporary directories that exist
  job,             \* number of the job in progress
  inputs,          \* the action inputs of the job
  guard,           \* outcome of the validate-sha step of the job
  rpc,             \* position of run()
  locals,          \* the local variables of run()
  failed,          \* message given to core.setFailed, "" when none
  commands,        \* commands and writes of the job, in order
  artifacts,       \* full-sha and package-file outputs of successful runs
  before           \* pin file, package.json and destination at job start

packVars == <<pinFile, manifest, destFiles, tempDirs, job, inputs, guard,
              rpc, locals, failed, commands, artifacts, before>>

world == <<trunkFile, workFile, baseFile, mergeBaseOK, pipeOK, branchName,
           allowPattern, modified_files, created_files, deleted_files>>
checkVars == <<trunkFile, workFile, baseFile, mergeBaseOK, pipeOK, branchName,
               allowPattern, modified_files, created_files, deleted_files,
               pc, versions, result, markdowns, fails, evaluations, previous,
               twin, multi, sweep, repo>>
vars == <<checkVars, packVars>>
\* what one call of checkPackVersion has no access to
others == <<evaluations, previous, twin, multi, sweep, repo, packVars>>

NoVersions == [main |-> Undefined, pr |-> Undefined, base |-> Undefined]
NoResult == [shouldBlock |-> FALSE, reason |-> "",
             mainVersion |-> Undefined, prVersion |-> Undefined,
             baseVersion |-> Undefined]

\* the JavaScript plugin has not run
NoTwin == [returned |-> FALSE, shouldBlock |-> FALSE, reason |-> "",
           markdowns |-> <<>>, fails |-> <<>>]

\* checkMultiplePackVersions has not been called
NoMulti == [pc |-> "idle", configs |-> <<>>, index |-> 0, results |-> <<>>,
            hasFailures |-> FALSE]

\* no sweep has been started
NoSweep == [pc |-> "idle", requests |-> <<>>, labelFilter |-> "",
            trunk |-> NoFile, selected |-> <<>>, verdicts |-> <<>>,
            anyBlocked |-> FALSE]

\* the pin files a repository can hold
UiFilePath == ".ui-sha"
RegistryFilePath == ".registry-sha"
PinPaths == {UiFilePath, RegistryFilePath}

\* one pin file: its contents at origin/main, in the working tree and at the
\* merge base, and its status in the pull request's diff
NoPinFile == [trunk |-> NoFile, work |-> NoFile, base |-> NoFile,
              status |-> "none"]
NoRepo == [p \in PinPaths |-> NoPinFile]

CallersIdle ==
  twin = NoTwin /\ multi = NoMulti /\ sweep = NoSweep /\ repo = NoRepo

\* options.filePath with its default '.ui-sha'; the options are those of
\* the config at hand when checkMultiplePackVersions makes the call
filePath ==
  IF multi.index \in 1..Len(multi.configs)
       /\ multi.configs[multi.index].filePath # NoFilePath
    THEN multi.configs[multi.index].filePath
  ELSE DefaultFilePath

isModified == filePath \in modified_files
isCreated == filePath \in created_files
isDeleted == filePath \in deleted_files

\* ============================================ pack-dependency/index.js
\* ------------------------------------------------- strings of the pipeline
\* the characters the pipeline's strings are made of, in code-unit order
CharOrder ==
  <<"\n", " ", "#", "-", ".", "/",
    "0", "1", "2", "3", "4", "5", "6", "7", "8", "9", ":", "@",
    "a", "b", "c", "d", "e", "f", "g", "h", "i", "j", "k", "l", "m",
    "n", "o", "p", "q", "r", "s", "t", "u", "v", "w", "x", "y", "z">>

CharCode(ch) == CHOOSE i \in 1..Len(CharOrder) : CharOrder[i] = ch

Digits == {"0", "1", "2", "3", "4", "5", "6", "7", "8", "9"}
\* [a-f0-9]
HexChars == Digits \cup {"a", "b", "c", "d", "e", "f"}

\* a < b as Array.prototype.sort() orders strings
RECURSIVE LexLess(_, _)
LexLess(a, b) ==
  IF b = <<>> THEN FALSE
  ELSE IF a = <<>> THEN TRUE
  ELSE IF Head(a) = Head(b) THEN LexLess(Tail(a), Tail(b))
  ELSE CharCode(Head(a)) < CharCode(Head(b))

\* the first file of the sorted list taken instead of the last
SortLast_First(files) ==
  CHOOSE f \in files : \A g \in files : g = f \/ LexLess(f, g)

\* files.sort()[files.length - 1]
SortLast(files) ==
  CHOOSE f \in files : \A g \in files : g = f \/ LexLess(g, f)

StartsWith(str, prefix) ==
  /\ Len(prefix) <= Len(str)
  /\ SubSeq(str, 1, Len(prefix)) = prefix

\* String.prototype.endsWith
EndsWith(str, suffix) ==
  /\ Len(suffix) <= Len(str)
  /\ SubSeq(str, Len(str) - Len(suffix) + 1, Len(str)) = suffix

DropLast(str, n) == SubSeq(str, 1, Len(str) - n)

TgzSuffix == <<".", "t", "g", "z">>

\* the longest run of digits that ends str
RECURSIVE TrailingDigits(_)
TrailingDigits(str) ==
  IF str = <<>> \/ str[Len(str)] \notin Digits THEN <<>>
  ELSE Append(TrailingDigits(DropLast(str, 1)), str[Len(str)])

\* packedFile.match(/([0-9]+\.[0-9]+\.[0-9]+)\.tgz$/): group 1, or Null
\* when there is no match
VersionMatch(packedFile) ==
  IF ~EndsWith(packedFile, TgzSuffix) THEN Null
  ELSE LET body == DropLast(packedFile, Len(TgzSuffix))
           patch == TrailingDigits(body)
           rest1 == DropLast(body, Len(patch))
           minor == IF rest1 # <<>> /\ rest1[Len(rest1)] = "."
                      THEN TrailingDigits(DropLast(rest1, 1)) ELSE <<>>
           rest2 == DropLast(rest1, Len(minor) + 1)
           major == IF minor # <<>> /\ rest2 # <<>> /\ rest2[Len(rest2)] = "."
                      THEN TrailingDigits(DropLast(rest2, 1)) ELSE <<>>
       IN IF patch # <<>> /\ minor # <<>> /\ major # <<>>
            THEN major \o <<".">> \o minor \o <<".">> \o patch
            ELSE Null

DefaultVersion == <<"0", ".", "0", ".", "0">>

\* packageName.replace(/[@\/]/g, '-').replace(/^-/, '')
CleanName(packageName) ==
  LET dashed == [i \in 1..Len(packageName) |->
                   IF packageName[i] \in {"@", "/"} THEN "-"
                   ELSE packageName[i]]
  IN IF dashed # <<>> /\ dashed[1] = "-" THEN Tail(dashed) ELSE dashed

\* `${cleanName}-${version}-${shortSha}.tgz`
NewName(packageName, packedFile, shortSha) ==
  LET versionMatch == VersionMatch(packedFile)
      version == IF versionMatch # Null THEN versionMatch ELSE DefaultVersion
  IN CleanName(packageName) \o <<"-">> \o version \o <<"-">> \o shortSha
       \o TgzSuffix

\* path.join(packDestination, file) with the default './packs'
PackDestination == <<"p", "a", "c", "k", "s">>
PathJoin(dir, file) == dir \o <<"/">> \o file

\* `file:${finalPackage}`
FileReference(finalPackage) == <<"f", "i", "l", "e", ":">> \o finalPackage

\* --------------------------------------------------- upstream repository
\* commit ids are shortened: a full id has ShaLen characters where git has 40
ShaLen == 4
\* the fewest characters git rev-parse --short prints (core.abbrev)
MinAbbrev == 2

CommitA == <<"a", "1", "0", "0">>
CommitB == <<"b", "2", "a", "0">>
CommitC == <<"b", "2", "f", "0">>
CommitD == <<"d", "4", "0", "0">>
Commits == {CommitA, CommitB, CommitC, CommitD}

\* the history: A is the root, B and D follow A, C follows B
Parents(c) ==
  IF c = CommitB \/ c = CommitD THEN {CommitA}
  ELSE IF c = CommitC THEN {CommitB}
  ELSE {}

RECURSIVE AncestorsOrSelf(_)
AncestorsOrSelf(c) ==
  {c} \cup UNION {AncestorsOrSelf(p) : p \in Parents(c)}

IsAncestorOrEqual(x, y) == x \in AncestorsOrSelf(y)

\* data.default_branch and the commit at its tip
DefaultBranch == <<"m", "a", "i", "n">>
DefaultBranchTip == CommitC

\* a target that names no commit
UnknownRef == <<"z">>

\* what git checkout <target> leaves in HEAD, Null when it fails
ResolveRef(target) ==
  IF target = DefaultBranch THEN DefaultBranchTip
  ELSE IF target \in Commits THEN target
  ELSE Null

\* the short id cut from the end of the full id
RevParseShort_Tail(c) == SubSeq(c, ShaLen - MinAbbrev + 1, ShaLen)

\* git rev-parse --short HEAD: the shortest prefix of at least MinAbbrev
\* characters that names one commit only
RevParseShort(c) ==
  LET unique(n) == \A o \in Commits \ {c} : SubSeq(o, 1, n) # SubSeq(c, 1, n)
      n == CHOOSE k \in MinAbbrev..ShaLen :
             /\ unique(k)
             /\ \A j \in MinAbbrev..(k - 1) : ~unique(j)
  IN SubSeq(c, 1, n)

\* the version in the package.json of the upstream at a commit
VersionAt(c) ==
  IF c = CommitA \/ c = CommitD THEN <<"1", ".", "0", ".", "0">>
  ELSE <<"1", ".", "0", ".", "1">>

\* the name in the package.json of the upstream, and the input that names it
UpstreamName == <<"@", "t", "/", "u", "i">>

\* the file pnpm pack writes for a commit: <name>-<version>.tgz
PnpmPack(c) == CleanName(UpstreamName) \o <<"-">> \o VersionAt(c) \o TgzSuffix

\* what a custom pack command may leave in the pack destination
OutTgz == <<"o", "u", "t", ".", "t", "g", "z">>
OutTxt == <<"o", "u", "t", ".", "t", "x", "t">>
CustomDeposits == {{}, {OutTgz, OutTxt}}

\* git log --oneline last..full: the commits reachable from full and not
\* from last, newest first; git log fails on an id the clone does not have
RECURSIVE NewestFirst(_)
NewestFirst(set) ==
  IF set = {} THEN <<>>
  ELSE LET tip == CHOOSE c \in set :
                    \A o \in set \ {c} : ~IsAncestorOrEqual(c, o)
       IN <<tip>> \o NewestFirst(set \ {tip})

GitLogFails(last) == last \notin Commits

\* the range given as full..last
GitLog_Reversed(last, full) ==
  NewestFirst(AncestorsOrSelf(last) \ AncestorsOrSelf(full))

GitLog(last, full) ==
  NewestFirst(AncestorsOrSelf(full) \ AncestorsOrSelf(last))

\* ----------------------------------------------------------- the pin file
PackageWord == <<"p", "a", "c", "k", "a", "g", "e">>

\* `# SHA of the last packed version of ${packageName || 'package'}\n
\* ${fullSha}\n`, the words of the comment line left out
FileContent(packageName, fullSha) ==
  <<"#", " ">> \o (IF packageName # <<>> THEN packageName ELSE PackageWord)
    \o <<"\n">> \o fullSha \o <<"\n">>

\* the lines of a text
RECURSIVE Lines(_)
Lines(text) ==
  IF \A i \in 1..Len(text) : text[i] # "\n" THEN <<text>>
  ELSE LET n == CHOOSE i \in 1..Len(text) :
                  /\ text[i] = "\n"
                  /\ \A j \in 1..(i - 1) : text[j] # "\n"
       IN <<SubSeq(text, 1, n - 1)>> \o Lines(SubSeq(text, n + 1, Len(text)))

\* /^[a-f0-9]{40}$/ on one line
IsShaLine(line) ==
  /\ Len(line) = ShaLen
  /\ \A i \in 1..Len(line) : line[i] \in HexChars

\* content.match(/^[a-f0-9]{40}$/m): the first line that is an id, '' when
\* the file is missing or has no such line
ReadLastSha(content) ==
  IF content = NoFile THEN <<>>
  ELSE LET lines == Lines(content)
           hits == {i \in 1..Len(lines) : IsShaLine(lines[i])}
       IN IF hits = {} THEN <<>>
          ELSE lines[CHOOSE i \in hits : \A j \in hits : i <= j]

\* ----------------------------------------------------------- package.json
\* package.json is missing, is not JSON, or is an object whose dependencies
\* may be missing and hold at most the entry of the package
MissingJson == [file |-> "missing", dependencies |-> FALSE, entry |-> Undefined]
InvalidJson == [file |-> "invalid", dependencies |-> FALSE, entry |-> Undefined]
NoDependencies == [file |-> "json", dependencies |-> FALSE, entry |-> Undefined]
WithEntry(entry) == [file |-> "json", dependencies |-> TRUE, entry |-> entry]

\* if (!packageJson.dependencies) packageJson.dependencies = {};
\* packageJson.dependencies[packageName] = `file:${finalPackage}`
SetDependency(packageJson, finalPackage) ==
  WithEntry(FileReference(finalPackage))

\* ------------------------------------------------ inputs and locals
NoPackageName == <<>>
PackageNames == {NoPackageName, UpstreamName}

\* target-sha as dispatched: empty, a commit id, or a name of no commit
TargetShas == {<<>>, UnknownRef} \cup (Commits \ {DefaultBranchTip})

NoInputs == [targetSha |-> <<>>, packageName |-> NoPackageName,
             packageCommand |-> FALSE, packCommand |-> FALSE,
             validate |-> FALSE, allowRollback |-> FALSE]
NoGuard == [status |-> "none", resolvedSha |-> <<>>, lastSha |-> <<>>,
            isRollback |-> FALSE]
NoLocals == [lastSha |-> <<>>, checkoutTarget |-> <<>>, head |-> Null,
             fullSha |-> <<>>, shortSha |-> <<>>, changelog |-> <<>>,
             deposit |-> {}, packedFile |-> <<>>, finalPackage |-> <<>>,
             error |-> ""]
NoSnapshot == [pinFile |-> NoFile, manifest |-> MissingJson, destFiles |-> {}]

\* the pack pipeline before any job has started
PackIdle ==
  /\ pinFile = NoFile
  /\ manifest = MissingJson
  /\ destFiles = {}
  /\ tempDirs = {}
  /\ job = 0
  /\ inputs = NoInputs
  /\ guard = NoGuard
  /\ rpc = "idle"
  /\ locals = NoLocals
  /\ failed = ""
  /\ commands = <<>>
  /\ artifacts = <<>>
  /\ before = NoSnapshot

Init ==
  /\ PackIdle
  /\ CallersIdle
  /\ evaluations = 1
  /\ previous = NoResult
  /\ trunkFile \in FileContents
  /\ workFile \in FileContents
  /\ baseFile \in FileContents
  /\ mergeBaseOK \in BOOLEAN
  /\ pipeOK \in BOOLEAN
  /\ branchName \in BranchNames
  /\ allowPattern \in AllowPatterns
  \* the file lists are the diff of the pull request (its own base..head);
  \* the working tree is the head of the pull request
  /\ \E other \in SUBSET {OtherPath}, prBase \in FileContents :
       /\ modified_files =
            other \cup (IF DiffStatus(prBase, workFile) = "modified"
                        THEN {filePath} ELSE {})
       /\ created_files =
            IF DiffStatus(prBase, workFile) = "created"
            THEN {filePath} ELSE {}
       /\ deleted_files =
            IF DiffStatus(prBase, workFile) = "deleted"
            THEN {filePath} ELSE {}
  /\ pc = "start"
  /\ versions = NoVersions
  /\ result = NoResult
  /\ markdowns = <<>>
  /\ fails = <<>>

\* --------------------------------------------------------- getVersions
\* versions.main: execSync of the git show pipeline, trimmed; null when
\* execSync throws
ReadMain(file, shell) == IF shell THEN Trim(GitShowHead(file)) ELSE Null

\* versions.pr: first line of the working-tree file, trimmed; null when the
\* file does not exist
ReadPr(file) == IF file = NoFile THEN Null ELSE Trim(SplitFirst(file))

\* versions.base: null when the merge-base query or the pipeline throws
ReadBase(file, mergeBase, shell) ==
  IF mergeBase /\ shell THEN Trim(GitShowHead(file)) ELSE Null

getVersions(trunk, work, base, mergeBase, shell) ==
  [main |-> ReadMain(trunk, shell),
   pr |-> ReadPr(work),
   base |-> ReadBase(base, mergeBase, shell)]

\* ------------------------------------------- evaluateBlockingConditions
\* Variants of evaluateBlockingConditions, each with one plausible slip
\* base compared with pr instead of main
evaluate_BaseAgainstPr(v, created, deleted) ==
  IF v.main = v.pr
    THEN [shouldBlock |-> FALSE, reason |-> ReasonMatch]
  ELSE IF ~Truthy(v.main) /\ ~Truthy(v.pr)
    THEN [shouldBlock |-> FALSE, reason |-> ReasonBothMissing]
  ELSE IF ~Truthy(v.main) /\ Truthy(v.pr) /\ created
    THEN [shouldBlock |-> FALSE, reason |-> ReasonNewFile]
  ELSE IF deleted
    THEN [shouldBlock |-> TRUE, reason |-> ReasonDeleted]
  ELSE IF ~Truthy(v.base)
    THEN [shouldBlock |-> TRUE, reason |-> ReasonNoBase]
  ELSE IF v.base = v.pr
    THEN [shouldBlock |-> TRUE, reason |-> ReasonBranchOnly]
  ELSE [shouldBlock |-> TRUE, reason |-> ReasonDivergent]

\* main compared with base instead of pr in the first test
evaluate_MatchAgainstBase(v, created, deleted) ==
  IF v.main = v.base
    THEN [shouldBlock |-> FALSE, reason |-> ReasonMatch]
  ELSE IF ~Truthy(v.main) /\ ~Truthy(v.pr)
    THEN [shouldBlock |-> FALSE, reason |-> ReasonBothMissing]
  ELSE IF ~Truthy(v.main) /\ Truthy(v.pr) /\ created
    THEN [shouldBlock |-> FALSE, reason |-> ReasonNewFile]
  ELSE IF deleted
    THEN [shouldBlock |-> TRUE, reason |-> ReasonDeleted]
  ELSE IF ~Truthy(v.base)
    THEN [shouldBlock |-> TRUE, reason |-> ReasonNoBase]
  ELSE IF v.base = v.main
    THEN [shouldBlock |-> TRUE, reason |-> ReasonBranchOnly]
  ELSE [shouldBlock |-> TRUE, reason |-> ReasonDivergent]

\* !pr tested where !base is meant
evaluate_NoBaseTestsPr(v, created, deleted) ==
  IF v.main = v.pr
    THEN [shouldBlock |-> FALSE, reason |-> ReasonMatch]
  ELSE IF ~Truthy(v.main) /\ ~Truthy(v.pr)
    THEN [shouldBlock |-> FALSE, reason |-> ReasonBothMissing]
  ELSE IF ~Truthy(v.main) /\ Truthy(v.pr) /\ created
    THEN [shouldBlock |-> FALSE, reason |-> ReasonNewFile]
  ELSE IF deleted
    THEN [shouldBlock |-> TRUE, reason |-> ReasonDeleted]
  ELSE IF ~Truthy(v.pr)
    THEN [shouldBlock |-> TRUE, reason |-> ReasonNoBase]
  ELSE IF v.base = v.main
    THEN [shouldBlock |-> TRUE, reason |-> ReasonBranchOnly]
  ELSE [shouldBlock |-> TRUE, reason |-> ReasonDivergent]

\* the new-file exemption granted without the created flag
evaluate_NewFileIgnoresCreated(v, created, deleted) ==
  IF v.main = v.pr
    THEN [shouldBlock |-> FALSE, reason |-> ReasonMatch]
  ELSE IF ~Truthy(v.main) /\ ~Truthy(v.pr)
    THEN [shouldBlock |-> FALSE, reason |-> ReasonBothMissing]
  ELSE IF ~Truthy(v.main) /\ Truthy(v.pr)
    THEN [shouldBlock |-> FALSE, reason |-> ReasonNewFile]
  ELSE IF deleted
    THEN [shouldBlock |-> TRUE, reason |-> ReasonDeleted]
  ELSE IF ~Truthy(v.base)
    THEN [shouldBlock |-> TRUE, reason |-> ReasonNoBase]
  ELSE IF v.base = v.main
    THEN [shouldBlock |-> TRUE, reason |-> ReasonBranchOnly]
  ELSE [shouldBlock |-> TRUE, reason |-> ReasonDivergent]

\* the new-file exemption tested after the merge-base test
evaluate_NewFileAfterNoBase(v, created, deleted) ==
  IF v.main = v.pr
    THEN [shouldBlock |-> FALSE, reason |-> ReasonMatch]
  ELSE IF ~Truthy(v.main) /\ ~Truthy(v.pr)
    THEN [shouldBlock |-> FALSE, reason |-> ReasonBothMissing]
  ELSE IF deleted
    THEN [shouldBlock |-> TRUE, reason |-> ReasonDeleted]
  ELSE IF ~Truthy(v.base)
    THEN [shouldBlock |-> TRUE, reason |-> ReasonNoBase]
  ELSE IF ~Truthy(v.main) /\ Truthy(v.pr) /\ created
    THEN [shouldBlock |-> FALSE, reason |-> ReasonNewFile]
  ELSE IF v.base = v.main
    THEN [shouldBlock |-> TRUE, reason |-> ReasonBranchOnly]
  ELSE [shouldBlock |-> TRUE, reason |-> ReasonDivergent]

\* the deleted test placed after the merge-base tests
evaluate_DeletedLast(v, created, deleted) ==
  IF v.main = v.pr
    THEN [shouldBlock |-> FALSE, reason |-> ReasonMatch]
  ELSE IF ~Truthy(v.main) /\ ~Truthy(v.pr)
    THEN [shouldBlock |-> FALSE, reason |-> ReasonBothMissing]
  ELSE IF ~Truthy(v.main) /\ Truthy(v.pr) /\ created
    THEN [shouldBlock |-> FALSE, reason |-> ReasonNewFile]
  ELSE IF ~Truthy(v.base)
    THEN [shouldBlock |-> TRUE, reason |-> ReasonNoBase]
  ELSE IF v.base = v.main
    THEN [shouldBlock |-> TRUE, reason |-> ReasonBranchOnly]
  ELSE IF deleted
    THEN [shouldBlock |-> TRUE, reason |-> ReasonDeleted]
  ELSE [shouldBlock |-> TRUE, reason |-> ReasonDivergent]

\* base === null tested where !base is meant
evaluate_NoBaseOnlyNull(v, created, deleted) ==
  IF v.main = v.pr
    THEN [shouldBlock |-> FALSE, reason |-> ReasonMatch]
  ELSE IF ~Truthy(v.main) /\ ~Truthy(v.pr)
    THEN [shouldBlock |-> FALSE, reason |-> ReasonBothMissing]
  ELSE IF ~Truthy(v.main) /\ Truthy(v.pr) /\ created
    THEN [shouldBlock |-> FALSE, reason |-> ReasonNewFile]
  ELSE IF deleted
    THEN [shouldBlock |-> TRUE, reason |-> ReasonDeleted]
  ELSE IF v.base = Null
    THEN [shouldBlock |-> TRUE, reason |-> ReasonNoBase]
  ELSE IF v.base = v.main
    THEN [shouldBlock |-> TRUE, reason |-> ReasonBranchOnly]
  ELSE [shouldBlock |-> TRUE, reason |-> ReasonDivergent]

evaluateBlockingConditions(v, created, deleted) ==
  IF v.main = v.pr
    THEN [shouldBlock |-> FALSE, reason |-> ReasonMatch]
  ELSE IF ~Truthy(v.main) /\ ~Truthy(v.pr)
    THEN [shouldBlock |-> FALSE, reason |-> ReasonBothMissing]
  ELSE IF ~Truthy(v.main) /\ Truthy(v.pr) /\ created
    THEN [shouldBlock |-> FALSE, reason |-> ReasonNewFile]
  ELSE IF deleted
    THEN [shouldBlock |-> TRUE, reason |-> ReasonDeleted]
  ELSE IF ~Truthy(v.base)
    THEN [shouldBlock |-> TRUE, reason |-> ReasonNoBase]
  ELSE IF v.base = v.main
    THEN [shouldBlock |-> TRUE, reason |-> ReasonBranchOnly]
  ELSE [shouldBlock |-> TRUE, reason |-> ReasonDivergent]

\* ------------------------------------------------------ checkPackVersion
\* allowPattern && new RegExp(allowPattern).test(branchName)
BranchAllowed(pattern, name) ==
  pattern # NoAllowPattern /\ RegExpTest(pattern, name)

\* the deleted flag tested with the wrong sign
Untouched_DeletedSign(m, c, d) == ~m /\ ~c /\ d

\* !isModified && !isCreated && !isDeleted
Untouched(m, c, d) == ~m /\ ~c /\ ~d

\* the allow pattern tested but its early return dropped
CheckAllowPattern_NoReturn ==
  /\ pc = "start"
  /\ pc' = "touched"
  /\ UNCHANGED <<world, versions, result, markdowns, fails, others>>

CheckAllowPattern ==
  /\ pc = "start"
  /\ IF BranchAllowed(allowPattern, branchName)
       THEN /\ result' = [NoResult EXCEPT !.shouldBlock = FALSE,
                                          !.reason = ReasonAllowed]
            /\ pc' = "done"
       ELSE /\ pc' = "touched"
            /\ UNCHANGED result
  /\ UNCHANGED <<world, versions, markdowns, fails, others>>

CheckModified ==
  /\ pc = "touched"
  /\ IF Untouched(isModified, isCreated, isDeleted)
       THEN /\ result' = [NoResult EXCEPT !.shouldBlock = FALSE,
                                          !.reason = ReasonUntouched]
            /\ pc' = "done"
       ELSE /\ pc' = "versions"
            /\ UNCHANGED result
  /\ UNCHANGED <<world, versions, markdowns, fails, others>>

\* the trunk version obtained by checking the file out of origin/main
GetVersions_ChecksOutMain ==
  /\ pc = "versions"
  /\ versions' = getVersions(trunkFile, workFile, baseFile, mergeBaseOK, pipeOK)
  /\ workFile' = trunkFile
  /\ pc' = "evaluate"
  /\ UNCHANGED <<trunkFile, baseFile, mergeBaseOK, pipeOK, branchName,
                 allowPattern, modified_files, created_files, deleted_files,
                 result, markdowns, fails, others>>

\* the merge-base query outside any try block
GetVersions_MergeBaseThrows ==
  /\ pc = "versions"
  /\ IF mergeBaseOK
       THEN /\ versions' = getVersions(trunkFile, workFile, baseFile,
                                       mergeBaseOK, pipeOK)
            /\ pc' = "evaluate"
       ELSE /\ pc' = "threw"
            /\ UNCHANGED versions
  /\ UNCHANGED <<world, result, markdowns, fails, others>>

GetVersions ==
  /\ pc = "versions"
  /\ versions' = getVersions(trunkFile, workFile, baseFile, mergeBaseOK, pipeOK)
  /\ pc' = "evaluate"
  /\ UNCHANGED <<world, result, markdowns, fails, others>>

Evaluate ==
  /\ pc = "evaluate"
  /\ LET evaluation == evaluateBlockingConditions(versions, isCreated, isDeleted)
     IN /\ result' = [shouldBlock |-> evaluation.shouldBlock,
                      reason |-> evaluation.reason,
                      mainVersion |-> versions.main,
                      prVersion |-> versions.pr,
                      baseVersion |-> versions.base]
        /\ IF evaluation.shouldBlock
             THEN /\ markdowns' = Append(markdowns, evaluation.reason)
                  /\ fails' = Append(fails, evaluation.reason)
             ELSE UNCHANGED <<markdowns, fails>>
  /\ pc' = "done"
  /\ UNCHANGED <<world, versions, others>>

Next ==
  \/ CheckAllowPattern
  \/ CheckModified
  \/ GetVersions
  \/ Evaluate

Spec == Init /\ [][Next]_vars

\* ------------------------------------------- checkMultiplePackVersions
\* the loop over configs: the result is pushed and checkPackVersion is
\* called for the next config, here a config for the same file
CheckNextConfig ==
  /\ pc = "done"
  /\ evaluations < MaxEvaluations
  /\ evaluations' = evaluations + 1
  /\ previous' = result
  /\ pc' = "start"
  /\ versions' = NoVersions
  /\ result' = NoResult
  /\ UNCHANGED <<world, markdowns, fails, twin, multi, sweep, repo,
                 packVars>>

NextMultiple ==
  \/ CheckAllowPattern
  \/ CheckModified
  \/ GetVersions
  \/ Evaluate
  \/ CheckNextConfig

SpecMultiple == Init /\ [][NextMultiple]_vars

\* ------------------------------------------- the JavaScript plugin
\* getVersions of the JavaScript plugin: every field starts as null and is
\* set inside its own try block
getVersionsJs(trunk, work, base, mergeBase, shell) ==
  [main |-> IF shell THEN Trim(GitShowHead(trunk)) ELSE Null,
   pr |-> IF work # NoFile THEN Trim(SplitFirst(work)) ELSE Null,
   base |-> IF ~mergeBase THEN Null
            ELSE IF shell THEN Trim(GitShowHead(base)) ELSE Null]

\* the JavaScript evaluation with base compared with pr
evaluateBlockingConditionsJs_BaseAgainstPr(v, created, deleted) ==
  IF v.main = v.pr
    THEN [shouldBlock |-> FALSE, reason |-> ReasonMatch]
  ELSE IF ~Truthy(v.main) /\ ~Truthy(v.pr)
    THEN [shouldBlock |-> FALSE, reason |-> ReasonBothMissing]
  ELSE IF ~Truthy(v.main) /\ Truthy(v.pr) /\ created
    THEN [shouldBlock |-> FALSE, reason |-> ReasonNewFile]
  ELSE IF deleted
    THEN [shouldBlock |-> TRUE, reason |-> ReasonDeleted]
  ELSE [shouldBlock |-> TRUE,
        reason |-> IF ~Truthy(v.base) THEN ReasonNoBase
                   ELSE IF v.base = v.pr THEN ReasonBranchOnly
                   ELSE ReasonDivergent]

\* evaluateBlockingConditions of the JavaScript plugin: four early returns,
\* then a blocking return whose reason is chosen by an if-else chain
evaluateBlockingConditionsJs(v, created, deleted) ==
  IF v.main = v.pr
    THEN [shouldBlock |-> FALSE, reason |-> ReasonMatch]
  ELSE IF ~Truthy(v.main) /\ ~Truthy(v.pr)
    THEN [shouldBlock |-> FALSE, reason |-> ReasonBothMissing]
  ELSE IF ~Truthy(v.main) /\ Truthy(v.pr) /\ created
    THEN [shouldBlock |-> FALSE, reason |-> ReasonNewFile]
  ELSE IF deleted
    THEN [shouldBlock |-> TRUE, reason |-> ReasonDeleted]
  ELSE [shouldBlock |-> TRUE,
        reason |-> IF ~Truthy(v.base) THEN ReasonNoBase
                   ELSE IF v.base = v.main THEN ReasonBranchOnly
                   ELSE ReasonDivergent]

\* checkPackVersion of the JavaScript plugin, run on the same pull request
\* before the TypeScript plugin; it returns the evaluation itself, without
\* the version fields
checkPackVersionJs ==
  /\ pc = "start"
  /\ ~twin.returned
  /\ LET evaluation ==
           IF allowPattern # NoAllowPattern
                /\ RegExpTest(allowPattern, branchName)
             THEN [shouldBlock |-> FALSE, reason |-> ReasonAllowed]
           ELSE IF ~(filePath \in modified_files)
                     /\ ~(filePath \in created_files)
                     /\ ~(filePath \in deleted_files)
             THEN [shouldBlock |-> FALSE, reason |-> ReasonUntouched]
           ELSE evaluateBlockingConditionsJs(
                  getVersionsJs(trunkFile, workFile, baseFile, mergeBaseOK,
                                pipeOK),
                  filePath \in created_files, filePath \in deleted_files)
     IN twin' = [returned |-> TRUE,
                 shouldBlock |-> evaluation.shouldBlock,
                 reason |-> evaluation.reason,
                 markdowns |-> IF evaluation.shouldBlock
                                 THEN <<evaluation.reason>> ELSE <<>>,
                 fails |-> IF evaluation.shouldBlock
                             THEN <<evaluation.reason>> ELSE <<>>]
  /\ UNCHANGED <<world, pc, versions, result, markdowns, fails,
                 evaluations, previous, multi, sweep, repo, packVars>>

NextTwin ==
  \/ checkPackVersionJs
  \/ CheckAllowPattern
  \/ CheckModified
  \/ GetVersions
  \/ Evaluate

SpecTwin == Init /\ [][NextTwin]_vars

\* =================================== checkMultiplePackVersions on configs
\* ------------------------------------------------------------ configs
\* '^(update|generate|release)-ui-.*' and its registry counterpart, as the
\* alternation of the words a hyphen must follow
UiAllowPattern == {"update-ui", "generate-ui", "release-ui"}
RegistryAllowPattern ==
  {"update-registry", "generate-registry", "release-registry"}

\* defaultConfig.ui and defaultConfig.registry
UiConfig == [filePath |-> UiFilePath, allowPattern |-> UiAllowPattern]
RegistryConfig ==
  [filePath |-> RegistryFilePath, allowPattern |-> RegistryAllowPattern]
\* the config {}: checkPackVersion takes every default
EmptyConfig == [filePath |-> NoFilePath, allowPattern |-> DefaultAllowPattern]

Configs == {EmptyConfig, UiConfig, RegistryConfig}

\* number of configs in one call
MaxConfigs == 2

ConfigLists == UNION {[1..n -> Configs] : n \in 0..MaxConfigs}

\* the path checkPackVersion works on for a config
PathOf(config) ==
  IF config.filePath = NoFilePath THEN DefaultFilePath ELSE config.filePath

\* ------------------------------------------------------ the pull request
PackBranchNames ==
  { <<"update", "-", "ui", "-", "1">>,
    <<"release", "-", "registry", "-", "1">>,
    <<"feature", "-", "update">> }

\* files of the source directories smartPackChecks relates to a pack
UiSourceFile == "src/components/Button.js"
RegistrySourceFile == "packages/registry/index.js"

PinContents == {NoFile, <<"a", "\n">>, <<"b", "\n">>}

\* a pin file of a pull request: a file in the working tree is unchanged,
\* created or modified by the request, a missing one unchanged or deleted
PinFiles ==
  {f \in [trunk : {NoFile, <<"a", "\n">>},
          work : PinContents,
          base : {<<"a", "\n">>, <<"b", "\n">>},
          status : {"none", "created", "modified", "deleted"}] :
     IF f.work = NoFile THEN f.status \in {"none", "deleted"}
     ELSE f.status # "deleted"}

\* a pull request on a repository with two pin files; checkPackVersion has
\* not been called
PullRequest(otherFiles) ==
  /\ PackIdle
  /\ evaluations = 1
  /\ previous = NoResult
  /\ twin = NoTwin
  /\ sweep = NoSweep
  /\ repo \in [PinPaths -> PinFiles]
  /\ mergeBaseOK \in BOOLEAN
  /\ pipeOK = TRUE
  /\ branchName \in PackBranchNames
  /\ \E other \in SUBSET otherFiles :
       modified_files =
         other \cup {p \in PinPaths : repo[p].status = "modified"}
  /\ created_files = {p \in PinPaths : repo[p].status = "created"}
  /\ deleted_files = {p \in PinPaths : repo[p].status = "deleted"}
  /\ trunkFile = NoFile /\ workFile = NoFile /\ baseFile = NoFile
  /\ allowPattern = NoAllowPattern
  /\ pc = "idle"
  /\ versions = NoVersions
  /\ result = NoResult
  /\ markdowns = <<>>
  /\ fails = <<>>

\* checkMultiplePackVersions(configs) has been called
InitConfigs ==
  /\ PullRequest({})
  /\ \E configs \in ConfigLists :
       multi = [NoMulti EXCEPT !.pc = "loop", !.configs = configs]

\* --------------------------------------------------------------- the loop
\* the call of checkPackVersion(config) for the next config: the options
\* are destructured and the call works on the file the config names
CallCheckPackVersion ==
  /\ multi.pc = "loop"
  /\ multi.index < Len(multi.configs)
  /\ LET config == multi.configs[multi.index + 1]
     IN /\ multi' = [multi EXCEPT !.pc = "await", !.index = @ + 1]
        /\ allowPattern' = config.allowPattern
        /\ trunkFile' = repo[PathOf(config)].trunk
        /\ workFile' = repo[PathOf(config)].work
        /\ baseFile' = repo[PathOf(config)].base
  /\ pc' = "start"
  /\ versions' = NoVersions
  /\ result' = NoResult
  /\ UNCHANGED <<mergeBaseOK, pipeOK, branchName, modified_files,
                 created_files, deleted_files, markdowns, fails, evaluations,
                 previous, twin, sweep, repo, packVars>>

\* hasFailures assigned the flag of the last result
PushResult_LastWins ==
  /\ multi.pc = "await"
  /\ pc = "done"
  /\ LET config == multi.configs[multi.index]
         tagged == [filePath |-> IF config.filePath = NoFilePath
                                   THEN ".ui-sha" ELSE config.filePath,
                    shouldBlock |-> result.shouldBlock,
                    reason |-> result.reason,
                    mainVersion |-> result.mainVersion,
                    prVersion |-> result.prVersion,
                    baseVersion |-> result.baseVersion]
     IN multi' = [multi EXCEPT !.pc = "loop",
                               !.results = Append(@, tagged),
                               !.hasFailures = result.shouldBlock]
  /\ pc' = "idle"
  /\ UNCHANGED <<world, versions, result, markdowns, fails, evaluations,
                 previous, twin, sweep, repo, packVars>>

\* results.push({filePath: config.filePath || '.ui-sha', ...result}) and
\* the update of hasFailures, once checkPackVersion has returned
PushResult ==
  /\ multi.pc = "await"
  /\ pc = "done"
  /\ LET config == multi.configs[multi.index]
         tagged == [filePath |-> IF config.filePath = NoFilePath
                                   THEN ".ui-sha" ELSE config.filePath,
                    shouldBlock |-> result.shouldBlock,
                    reason |-> result.reason,
                    mainVersion |-> result.mainVersion,
                    prVersion |-> result.prVersion,
                    baseVersion |-> result.baseVersion]
     IN multi' = [multi EXCEPT !.pc = "loop",
                               !.results = Append(@, tagged),
                               !.hasFailures = @ \/ result.shouldBlock]
  /\ pc' = "idle"
  /\ UNCHANGED <<world, versions, result, markdowns, fails, evaluations,
                 previous, twin, sweep, repo, packVars>>

\* return { results, hasFailures } after the last config
ReturnMultiple ==
  /\ multi.pc = "loop"
  /\ multi.index = Len(multi.configs)
  /\ multi' = [multi EXCEPT !.pc = "returned"]
  /\ UNCHANGED <<world, pc, versions, result, markdowns, fails, evaluations,
                 previous, twin, sweep, repo, packVars>>

NextConfigs ==
  \/ CallCheckPackVersion
  \/ CheckAllowPattern
  \/ CheckModified
  \/ GetVersions
  \/ Evaluate
  \/ PushResult
  \/ ReturnMultiple

SpecConfigs == InitConfigs /\ [][NextConfigs]_vars

\* ------------------------------------------------------ smartPackChecks
\* a pull request on which the dangerfile calls smartPackChecks()
InitSmart ==
  /\ PullRequest({UiSourceFile, RegistrySourceFile})
  /\ multi = [NoMulti EXCEPT !.pc = "smart"]

\* allChangedFiles.some(..) for the UI pack and for the registry pack
UiRelated(files) ==
  \E f \in files :
    \/ StartsWith(f, "packages/ui/")
    \/ StartsWith(f, "src/components/")
    \/ f = ".ui-sha"

RegistryRelated(files) ==
  \E f \in files :
    \/ StartsWith(f, "packages/registry/")
    \/ StartsWith(f, "src/registry/")
    \/ f = ".registry-sha"

\* smartPackChecks up to its call of checkMultiplePackVersions, or its
\* return when no config was pushed
SmartPackChecks ==
  /\ multi.pc = "smart"
  /\ LET allChangedFiles == modified_files \cup created_files
         configs ==
           (IF UiRelated(allChangedFiles) THEN <<UiConfig>> ELSE <<>>)
             \o (IF RegistryRelated(allChangedFiles)
                   THEN <<RegistryConfig>> ELSE <<>>)
     IN multi' = IF Len(configs) > 0
                   THEN [multi EXCEPT !.pc = "loop", !.configs = configs]
                 ELSE [multi EXCEPT !.pc = "returned"]
  /\ UNCHANGED <<world, pc, versions, result, markdowns, fails, evaluations,
                 previous, twin, sweep, repo, packVars>>

NextSmart ==
  \/ SmartPackChecks
  \/ CallCheckPackVersion
  \/ CheckAllowPattern
  \/ CheckModified
  \/ GetVersions
  \/ Evaluate
  \/ PushResult
  \/ ReturnMultiple

SpecSmart == InitSmart /\ [][NextSmart]_vars

\* ======================================================= the fleet sweep
\* sweep(repository, trackedFilePath, baseBranch, labelFilter?)
\* change requests of one repository
MaxRequests == 2

BaseBranch == "main"
SweepLabel == "needs-update"

\* the tracked file on a request's branch: working-tree contents, contents
\* at the merge base and status in the request's diff
BranchFiles ==
  { [work |-> <<"a", "\n">>, base |-> <<"a", "\n">>, status |-> "none"],
    [work |-> <<"b", "\n">>, base |-> <<"a", "\n">>, status |-> "modified"],
    [work |-> <<"b", "\n">>, base |-> <<"b", "\n">>, status |-> "created"],
    [work |-> NoFile, base |-> <<"a", "\n">>, status |-> "deleted"] }

ChangeRequests ==
  [state : {"open", "closed"},
   base : {BaseBranch, "dev"},
   labels : SUBSET {SweepLabel},
   branch : { <<"update", "-", "ui">>, <<"feature", "-", "update">> },
   file : BranchFiles]

\* closed requests are kept only when they target the base branch
RequestLists ==
  UNION {[1..n -> {r \in ChangeRequests :
                     r.state = "closed" => r.base = BaseBranch}]
           : n \in 0..MaxRequests}

\* the engine's verdict for one request: the allow pattern, the untouched
\* test and the classification of the three versions, with no post
EngineVerdict(request, trunk) ==
  LET created == request.file.status = "created"
      deleted == request.file.status = "deleted"
      modified == request.file.status = "modified"
      v == getVersions(trunk, request.file.work, request.file.base,
                       TRUE, TRUE)
      e == evaluateBlockingConditions(v, created, deleted)
  IN IF BranchAllowed(DefaultAllowPattern, request.branch)
       THEN [blocked |-> FALSE, reason |-> ReasonAllowed]
     ELSE IF Untouched(modified, created, deleted)
       THEN [blocked |-> FALSE, reason |-> ReasonUntouched]
     ELSE [blocked |-> e.shouldBlock, reason |-> e.reason]

\* a request the sweep covers: open, targeting the base branch, and
\* carrying the label when a label filter is given
Covered(request, labelFilter) ==
  /\ request.state = "open"
  /\ request.base = BaseBranch
  /\ labelFilter # "" => labelFilter \in request.labels

\* the positions of the covered requests, in order
RECURSIVE CoveredFrom(_, _, _)
CoveredFrom(requests, labelFilter, i) ==
  IF i > Len(requests) THEN <<>>
  ELSE (IF Covered(requests[i], labelFilter) THEN <<i>> ELSE <<>>)
         \o CoveredFrom(requests, labelFilter, i + 1)

InitSweep ==
  /\ PackIdle
  /\ trunkFile = NoFile /\ workFile = NoFile /\ baseFile = NoFile
  /\ mergeBaseOK = TRUE /\ pipeOK = TRUE
  /\ branchName = <<"updates">> /\ allowPattern = NoAllowPattern
  /\ modified_files = {} /\ created_files = {} /\ deleted_files = {}
  /\ pc = "idle" /\ versions = NoVersions /\ result = NoResult
  /\ markdowns = <<>> /\ fails = <<>>
  /\ evaluations = 1 /\ previous = NoResult
  /\ twin = NoTwin /\ multi = NoMulti /\ repo = NoRepo
  /\ \E requests \in RequestLists, filter \in {"", SweepLabel},
        trunk \in {NoFile, <<"a", "\n">>} :
       sweep = [NoSweep EXCEPT !.pc = "enumerate", !.requests = requests,
                               !.labelFilter = filter, !.trunk = trunk]

\* the enumeration without the label filter
Enumerate_IgnoresLabel ==
  /\ sweep.pc = "enumerate"
  /\ sweep' = [sweep EXCEPT !.pc = "evaluate",
                            !.selected = CoveredFrom(sweep.requests, "", 1)]
  /\ UNCHANGED <<world, pc, versions, result, markdowns, fails, evaluations,
                 previous, twin, multi, repo, packVars>>

\* the open change requests targeting the base branch, label filter applied
Enumerate ==
  /\ sweep.pc = "enumerate"
  /\ sweep' = [sweep EXCEPT !.pc = "evaluate",
                            !.selected = CoveredFrom(sweep.requests,
                                                     sweep.labelFilter, 1)]
  /\ UNCHANGED <<world, pc, versions, result, markdowns, fails, evaluations,
                 previous, twin, multi, repo, packVars>>

\* the engine invoked for the next covered request
EvaluateRequest ==
  /\ sweep.pc = "evaluate"
  /\ Len(sweep.verdicts) < Len(sweep.selected)
  /\ LET i == sweep.selected[Len(sweep.verdicts) + 1]
         verdict == EngineVerdict(sweep.requests[i], sweep.trunk)
     IN sweep' = [sweep EXCEPT
                    !.verdicts = Append(@, [request |-> i,
                                            blocked |-> verdict.blocked,
                                            reason |-> verdict.reason]),
                    !.anyBlocked = @ \/ verdict.blocked]
  /\ UNCHANGED <<world, pc, versions, result, markdowns, fails, evaluations,
                 previous, twin, multi, repo, packVars>>

\* {perBranchVerdicts, anyBlocked} returned after the last request
ReturnSweep ==
  /\ sweep.pc = "evaluate"
  /\ Len(sweep.verdicts) = Len(sweep.selected)
  /\ sweep' = [sweep EXCEPT !.pc = "returned"]
  /\ UNCHANGED <<world, pc, versions, result, markdowns, fails, evaluations,
                 previous, twin, multi, repo, packVars>>

NextSweep ==
  \/ Enumerate
  \/ EvaluateRequest
  \/ ReturnSweep

SpecSweep == InitSweep /\ [][NextSweep]_vars

\* ======================================================= the pack job
\* ------------------------------------------------------- validate-sha
\* a previous id equal to the resolved id counted as a rollback
IsRollback_EqualCounts(previousId, resolvedId) ==
  previousId # <<>> /\ (previousId = resolvedId
                         \/ ~IsAncestorOrEqual(previousId, resolvedId))

\* is-rollback: a previous id is recorded and is not an ancestor of, nor
\* equal to, the resolved id
IsRollback(previousId, resolvedId) ==
  previousId # <<>> /\ ~IsAncestorOrEqual(previousId, resolvedId)

\* resolve(repository, requestedTarget, trackedFilePath, allowRollback)
Resolve(requestedTarget, tracked, allowRollback) ==
  LET resolvedSha == IF requestedTarget = <<>> THEN DefaultBranchTip
                     ELSE ResolveRef(requestedTarget)
      lastSha == ReadLastSha(tracked)
  IN IF resolvedSha = Null
       THEN [status |-> "ResolutionError", resolvedSha |-> <<>>,
             lastSha |-> lastSha, isRollback |-> FALSE]
     ELSE IF IsRollback(lastSha, resolvedSha) /\ ~allowRollback
       THEN [status |-> "RollbackRejected", resolvedSha |-> <<>>,
             lastSha |-> lastSha, isRollback |-> TRUE]
     ELSE [status |-> "resolved", resolvedSha |-> resolvedSha,
           lastSha |-> lastSha, isRollback |-> IsRollback(lastSha, resolvedSha)]

\* ----------------------------------------------------------- the job
EndStates == {"done", "failed", "rejected", "cancelled"}

\* the engine is not part of the pack job
CheckIdle ==
  /\ trunkFile = NoFile /\ workFile = NoFile /\ baseFile = NoFile
  /\ mergeBaseOK = TRUE /\ pipeOK = TRUE
  /\ branchName = <<"updates">> /\ allowPattern = NoAllowPattern
  /\ modified_files = {} /\ created_files = {} /\ deleted_files = {}
  /\ pc = "start" /\ versions = NoVersions /\ result = NoResult
  /\ markdowns = <<>> /\ fails = <<>>
  /\ evaluations = 1 /\ previous = NoResult
  /\ CallersIdle

\* the downstream working copy and the workflow file before the first job
InitPack ==
  /\ CheckIdle
  /\ pinFile \in {NoFile, CommitB \o <<"\n">>}
  /\ manifest \in {MissingJson, InvalidJson, NoDependencies}
  /\ destFiles = {}
  /\ tempDirs = {}
  /\ job = 0
  /\ \E name \in PackageNames, build \in BOOLEAN, custom \in BOOLEAN,
        validate \in BOOLEAN :
       inputs = [NoInputs EXCEPT !.packageName = name,
                                 !.packageCommand = build,
                                 !.packCommand = custom,
                                 !.validate = validate]
  /\ guard = NoGuard
  /\ rpc = "idle"
  /\ locals = NoLocals
  /\ failed = ""
  /\ commands = <<>>
  /\ artifacts = <<>>
  /\ before = NoSnapshot

\* a workflow_dispatch of the job with its target-sha and allow-rollback
StartJob ==
  /\ rpc \in EndStates \cup {"idle"}
  /\ job < MaxJobs
  /\ job' = job + 1
  /\ \E target \in TargetShas, allow \in BOOLEAN :
       /\ inputs.validate \/ ~allow
       /\ inputs' = [inputs EXCEPT !.targetSha = target,
                                   !.allowRollback = allow]
  /\ guard' = NoGuard
  /\ locals' = NoLocals
  /\ failed' = ""
  /\ commands' = <<>>
  /\ before' = [pinFile |-> pinFile, manifest |-> manifest,
                destFiles |-> destFiles]
  /\ rpc' = IF inputs.validate THEN "validate" ELSE "read"
  /\ UNCHANGED <<pinFile, manifest, destFiles, tempDirs, artifacts, checkVars>>

\* the validate-sha step with continue-on-error
ValidateSha_ContinueOnError ==
  /\ rpc = "validate"
  /\ guard' = Resolve(inputs.targetSha, pinFile, inputs.allowRollback)
  /\ rpc' = "read"
  /\ UNCHANGED <<pinFile, manifest, destFiles, tempDirs, job, inputs, locals,
                 failed, commands, artifacts, before, checkVars>>

\* the validate-sha step; the steps after it are skipped when it fails
ValidateSha ==
  /\ rpc = "validate"
  /\ guard' = Resolve(inputs.targetSha, pinFile, inputs.allowRollback)
  /\ rpc' = IF guard'.status = "resolved" THEN "read" ELSE "rejected"
  /\ failed' = IF guard'.status = "resolved" THEN "" ELSE guard'.status
  /\ UNCHANGED <<pinFile, manifest, destFiles, tempDirs, job, inputs, locals,
                 commands, artifacts, before, checkVars>>

\* target-sha of the pack step: resolved-sha of the validate step if there
\* is one
targetSha == IF inputs.validate THEN guard.resolvedSha ELSE inputs.targetSha
packageName == inputs.packageName

\* the variables no step of run() writes
jobVars == <<job, inputs, guard, artifacts, before, checkVars>>

\* an awaited call rejects: control passes to the finally block
Throw(message) ==
  /\ rpc' = "cleanup"
  /\ locals' = [locals EXCEPT !.error = message]

\* Read last SHA from file
ReadFile ==
  /\ rpc = "read"
  /\ locals' = [locals EXCEPT !.lastSha = ReadLastSha(pinFile)]
  /\ rpc' = "mkdtemp"
  /\ UNCHANGED <<pinFile, manifest, destFiles, tempDirs, failed, commands,
                 jobVars>>

\* Create temp directory; a rejection is outside the inner try
MkdTemp ==
  /\ rpc = "mkdtemp"
  /\ \E ok \in BOOLEAN :
       IF ok THEN /\ tempDirs' = tempDirs \cup {job}
                  /\ rpc' = "clone"
                  /\ UNCHANGED failed
       ELSE /\ rpc' = "failed"
            /\ failed' = "mkdtemp failed"
            /\ UNCHANGED tempDirs
  /\ UNCHANGED <<pinFile, manifest, destFiles, locals, commands, jobVars>>

\* Clone the repository
Clone ==
  /\ rpc = "clone"
  /\ \E ok \in BOOLEAN :
       IF ok THEN /\ rpc' = IF targetSha = <<>> THEN "default" ELSE "checkout"
                  /\ locals' = [locals EXCEPT !.checkoutTarget = targetSha]
                  /\ commands' = Append(commands, "clone")
       ELSE /\ Throw("clone failed")
            /\ UNCHANGED commands
  /\ UNCHANGED <<pinFile, manifest, destFiles, tempDirs, failed, jobVars>>

\* Get default branch if not specified
GetDefaultBranch ==
  /\ rpc = "default"
  /\ \E ok \in BOOLEAN :
       IF ok THEN /\ rpc' = "checkout"
                  /\ locals' = [locals EXCEPT !.checkoutTarget = DefaultBranch]
       ELSE Throw("repos.get failed")
  /\ UNCHANGED <<pinFile, manifest, destFiles, tempDirs, failed, commands,
                 jobVars>>

\* Checkout target
Checkout ==
  /\ rpc = "checkout"
  /\ \E ok \in BOOLEAN :
       IF ok /\ ResolveRef(locals.checkoutTarget) # Null
         THEN /\ rpc' = "revparse"
              /\ locals' = [locals EXCEPT
                              !.head = ResolveRef(locals.checkoutTarget)]
              /\ commands' = Append(commands, "checkout")
         ELSE /\ Throw("checkout failed")
              /\ UNCHANGED commands
  /\ UNCHANGED <<pinFile, manifest, destFiles, tempDirs, failed, jobVars>>

\* Get the actual SHA: git rev-parse HEAD and git rev-parse --short HEAD
RevParse ==
  /\ rpc = "revparse"
  /\ \E ok \in BOOLEAN :
       IF ok THEN /\ rpc' = IF locals.lastSha # <<>> THEN "changelog"
                           ELSE "install"
                  /\ locals' = [locals EXCEPT
                                  !.fullSha = locals.head,
                                  !.shortSha = RevParseShort(locals.head)]
       ELSE Throw("rev-parse failed")
  /\ UNCHANGED <<pinFile, manifest, destFiles, tempDirs, failed, commands,
                 jobVars>>

\* Generate changelog if we have a previous SHA; a failure of git log is
\* caught and the run goes on
Changelog ==
  /\ rpc = "changelog"
  /\ \E ok \in BOOLEAN :
       IF ok /\ ~GitLogFails(locals.lastSha)
         THEN /\ locals' = [locals EXCEPT
                 !.changelog = GitLog(locals.lastSha, locals.fullSha)]
              /\ commands' = Append(commands, "log")
         ELSE /\ commands' = Append(commands, "warning")
              /\ UNCHANGED locals
  /\ rpc' = "install"
  /\ UNCHANGED <<pinFile, manifest, destFiles, tempDirs, failed, jobVars>>

\* the run going on when pnpm install fails
Install_ContinueOnFailure ==
  /\ rpc = "install"
  /\ \E ok \in BOOLEAN :
       /\ rpc' = IF inputs.packageCommand THEN "package" ELSE "mkdir"
       /\ commands' = IF ok THEN Append(commands, "install") ELSE commands
       /\ UNCHANGED locals
  /\ UNCHANGED <<pinFile, manifest, destFiles, tempDirs, failed, jobVars>>

\* Install dependencies
Install ==
  /\ rpc = "install"
  /\ \E ok \in BOOLEAN :
       IF ok THEN /\ rpc' = IF inputs.packageCommand THEN "package" ELSE "mkdir"
                  /\ commands' = Append(commands, "install")
                  /\ UNCHANGED locals
       ELSE /\ Throw("install failed")
            /\ UNCHANGED commands
  /\ UNCHANGED <<pinFile, manifest, destFiles, tempDirs, failed, jobVars>>

\* Run build/package command if specified
PackageCommand ==
  /\ rpc = "package"
  /\ \E ok \in BOOLEAN :
       IF ok THEN /\ rpc' = "mkdir"
                  /\ commands' = Append(commands, "package")
                  /\ UNCHANGED locals
       ELSE /\ Throw("package command failed")
            /\ UNCHANGED commands
  /\ UNCHANGED <<pinFile, manifest, destFiles, tempDirs, failed, jobVars>>

\* Create pack destination directory
Mkdir ==
  /\ rpc = "mkdir"
  /\ \E ok \in BOOLEAN :
       IF ok THEN /\ rpc' = "pack"
                  /\ UNCHANGED locals
       ELSE Throw("mkdir failed")
  /\ UNCHANGED <<pinFile, manifest, destFiles, tempDirs, failed, commands,
                 jobVars>>

\* Run pack command: the custom one, or pnpm pack into the destination
Pack ==
  /\ rpc = "pack"
  /\ \E ok \in BOOLEAN :
       IF ok THEN /\ rpc' = "find"
                  /\ commands' = Append(commands, "pack")
                  /\ \E deposit \in IF inputs.packCommand THEN CustomDeposits
                                      ELSE {{PnpmPack(locals.head)}} :
                       /\ destFiles' = destFiles \cup deposit
                       /\ locals' = [locals EXCEPT !.deposit = deposit]
       ELSE /\ Throw("pack failed")
            /\ UNCHANGED <<commands, destFiles>>
  /\ UNCHANGED <<pinFile, manifest, tempDirs, failed, jobVars>>

\* files.filter(f => f.endsWith('.tgz'))
TgzFiles(files) == {f \in files : EndsWith(f, TgzSuffix)}

\* Find the packed file
FindPacked ==
  /\ rpc = "find"
  /\ \E ok \in BOOLEAN :
       IF ~ok THEN Throw("readdir failed")
       ELSE IF TgzFiles(destFiles) = {} THEN Throw("No packed file found")
       ELSE /\ rpc' = IF packageName # <<>> THEN "rename" ELSE "pin"
            /\ locals' = [locals EXCEPT
                 !.packedFile = SortLast(TgzFiles(destFiles)),
                 !.finalPackage =
                    PathJoin(PackDestination, SortLast(TgzFiles(destFiles)))]
  /\ UNCHANGED <<pinFile, manifest, destFiles, tempDirs, failed, commands,
                 jobVars>>

\* Rename with short SHA if package name is provided
Rename ==
  /\ rpc = "rename"
  /\ \E ok \in BOOLEAN :
       IF ok
         THEN LET newName == NewName(packageName, locals.packedFile,
                                     locals.shortSha)
              IN /\ destFiles' = (destFiles \ {locals.packedFile})
                                   \cup {newName}
                 /\ locals' = [locals EXCEPT
                      !.finalPackage = PathJoin(PackDestination, newName)]
                 /\ commands' = Append(commands, "rename")
                 /\ rpc' = "pin"
         ELSE /\ Throw("rename failed")
              /\ UNCHANGED <<destFiles, commands>>
  /\ UNCHANGED <<pinFile, manifest, tempDirs, failed, jobVars>>

\* Update version file
WritePin ==
  /\ rpc = "pin"
  /\ \E ok \in BOOLEAN :
       IF ok THEN /\ pinFile' = FileContent(packageName, locals.fullSha)
                  /\ commands' = Append(commands, "writePin")
                  /\ rpc' = IF packageName # <<>> THEN "manifest" ELSE "cleanup"
                  /\ UNCHANGED locals
       ELSE /\ Throw("writeFile failed")
            /\ UNCHANGED <<pinFile, commands>>
  /\ UNCHANGED <<manifest, destFiles, tempDirs, failed, jobVars>>

\* Update package.json if package name is specified
UpdatePackageJson ==
  /\ rpc = "manifest"
  /\ \E ok \in BOOLEAN :
       IF manifest.file = "missing" THEN
         /\ Throw("ENOENT package.json")
         /\ UNCHANGED <<manifest, commands>>
       ELSE IF manifest.file = "invalid" THEN
         /\ Throw("Unexpected token in JSON")
         /\ UNCHANGED <<manifest, commands>>
       ELSE IF ~ok THEN
         /\ Throw("writeFile failed")
         /\ UNCHANGED <<manifest, commands>>
       ELSE
         /\ manifest' = SetDependency(manifest, locals.finalPackage)
         /\ commands' = Append(commands, "writeManifest")
         /\ rpc' = "cleanup"
         /\ UNCHANGED locals
  /\ UNCHANGED <<pinFile, destFiles, tempDirs, failed, jobVars>>

\* the finally block, then either the end of run() or the outer catch
Cleanup ==
  /\ rpc = "cleanup"
  /\ tempDirs' = tempDirs \ {job}
  /\ IF locals.error = ""
       THEN /\ rpc' = "done"
            /\ artifacts' = Append(artifacts,
                 [fullSha |-> locals.fullSha,
                  packageFile |-> locals.finalPackage,
                  packedFile |-> locals.packedFile])
            /\ UNCHANGED failed
       ELSE /\ rpc' = "failed"
            /\ failed' = locals.error
            /\ UNCHANGED artifacts
  /\ UNCHANGED <<pinFile, manifest, destFiles, locals, commands,
                 job, inputs, guard, before, checkVars>>

\* the job is cancelled: the runner kills the node process, which has no
\* signal handler, wherever run() is
InFlight ==
  {"read", "mkdtemp", "clone", "default", "checkout", "revparse", "changelog",
   "install", "package", "mkdir", "pack", "find", "rename", "pin", "manifest",
   "cleanup"}

Cancel ==
  /\ rpc \in InFlight
  /\ rpc' = "cancelled"
  /\ UNCHANGED <<pinFile, manifest, destFiles, tempDirs, locals, failed,
                 commands, jobVars>>

NextPack ==
  \/ StartJob
  \/ ValidateSha
  \/ ReadFile
  \/ MkdTemp
  \/ Clone
  \/ GetDefaultBranch
  \/ Checkout
  \/ RevParse
  \/ Changelog
  \/ Install
  \/ PackageCommand
  \/ Mkdir
  \/ Pack
  \/ FindPacked
  \/ Rename
  \/ WritePin
  \/ UpdatePackageJson
  \/ Cleanup
  \/ Cancel

SpecPack == InitPack /\ [][NextPack]_vars

\* ============================== the engine on files the pipeline wrote
\* the version file as the pipeline leaves it, or missing
WrittenFiles ==
  {NoFile} \cup {FileContent(n, c) : n \in PackageNames, c \in Commits}

\* a pull request whose trunk, head and merge base hold files written by
\* the pipeline; the working tree is the downstream working copy
InitWritten ==
  /\ CallersIdle
  /\ trunkFile \in WrittenFiles
  /\ workFile \in WrittenFiles
  /\ baseFile \in WrittenFiles
  /\ mergeBaseOK \in BOOLEAN
  /\ pipeOK \in BOOLEAN
  /\ branchName \in BranchNames
  /\ allowPattern \in AllowPatterns
  /\ \E other \in SUBSET {OtherPath}, prBase \in WrittenFiles :
       /\ modified_files =
            other \cup (IF DiffStatus(prBase, workFile) = "modified"
                        THEN {filePath} ELSE {})
       /\ created_files =
            IF DiffStatus(prBase, workFile) = "created"
            THEN {filePath} ELSE {}
       /\ deleted_files =
            IF DiffStatus(prBase, workFile) = "deleted"
            THEN {filePath} ELSE {}
  /\ pc = "start"
  /\ versions = NoVersions
  /\ result = NoResult
  /\ markdowns = <<>>
  /\ fails = <<>>
  /\ evaluations = 1
  /\ previous = NoResult
  /\ pinFile = workFile
  /\ manifest = MissingJson
  /\ destFiles = {}
  /\ tempDirs = {}
  /\ job = 0
  /\ inputs = NoInputs
  /\ guard = NoGuard
  /\ rpc = "idle"
  /\ locals = NoLocals
  /\ failed = ""
  /\ commands = <<>>
  /\ artifacts = <<>>
  /\ before = NoSnapshot

SpecWritten == InitWritten /\ [][Next]_vars

TypeOK ==
  /\ pc \in {"start", "touched", "versions", "evaluate", "done"}
  /\ result.shouldBlock \in BOOLEAN
  /\ Len(markdowns) = Len(fails)

\* ============================================================== claims
\* The values read by the engine: T (trunk), P (proposed), B (merge base)
T == versions.main
P == versions.pr
B == versions.base

\* a value is absent when it is null or the empty string
Absent(v) == ~Truthy(v)

\* the string-or-absent value a read stands for
PinValue(v) == IF Truthy(v) THEN v ELSE Null

\* checkPackVersion has returned
Returned == pc = "done"

\* checkPackVersion has returned after reading and classifying the versions
Evaluated == pc = "done" /\ versions # NoVersions

Allowed == BranchAllowed(allowPattern, branchName)
FileUntouched == ~isModified /\ ~isCreated /\ ~isDeleted

\* T absent, P present and the file created on the branch
BrandNewFile == Absent(T) /\ ~Absent(P) /\ isCreated

\* ---------------------------------------------------------------- C1
\* C1 as stated: whenever the engine has classified a touched file with
\* B equal to T (both absent included) and T different from P, the verdict
\* is blocked with reason branch-only-edit, whatever the created and deleted
\* flags are.
C1_AsStated ==
  (Evaluated /\ PinValue(B) = PinValue(T) /\ PinValue(T) # PinValue(P))
    => (result.shouldBlock /\ result.reason = ReasonBranchOnly)

\* C1 amended: whenever the engine has classified a touched file that was
\* not deleted on the branch, with B present and equal to T and T different
\* from P, the verdict is blocked with reason branch-only-edit.
C1_BranchOnlyEdit ==
  (Evaluated /\ ~isDeleted /\ ~Absent(B) /\ B = T
     /\ PinValue(T) # PinValue(P))
    => (result.shouldBlock /\ result.reason = ReasonBranchOnly)

C1_Witness ==
  /\ Evaluated /\ ~isDeleted /\ ~Absent(B) /\ B = T
  /\ ~Absent(P) /\ P # T
  /\ result.shouldBlock /\ result.reason = ReasonBranchOnly

C3_EqualMatches ==
  (Evaluated /\ T = P)
    => (~result.shouldBlock /\ result.reason = ReasonMatch)

C3_Witness ==
  /\ Evaluated /\ T = P /\ ~Absent(T)
  /\ ~Absent(B) /\ B # T
  /\ result.reason = ReasonMatch

\* ---------------------------------------------------------------- C4
\* C4 as stated: whenever B differs from both T and P and T differs from P,
\* the verdict is blocked with reason divergent-edit, also when B is absent
\* and when the file was deleted on the branch.
C4_AsStated ==
  (Evaluated /\ PinValue(B) # PinValue(T) /\ PinValue(B) # PinValue(P)
     /\ PinValue(T) # PinValue(P))
    => (result.shouldBlock /\ result.reason = ReasonDivergent)

\* C4 amended: whenever B is present and differs from both T and P, T differs
\* from P, the file was not deleted on the branch and is not a brand-new
\* file, the verdict is blocked with reason divergent-edit.
C4_DivergentEdit ==
  (Evaluated /\ ~Absent(B) /\ ~isDeleted /\ ~BrandNewFile
     /\ PinValue(B) # PinValue(T) /\ PinValue(B) # PinValue(P)
     /\ PinValue(T) # PinValue(P))
    => (result.shouldBlock /\ result.reason = ReasonDivergent)

C4_Witness ==
  /\ Evaluated /\ ~isDeleted
  /\ ~Absent(B) /\ ~Absent(T) /\ ~Absent(P)
  /\ B # T /\ B # P /\ T # P
  /\ result.shouldBlock /\ result.reason = ReasonDivergent

\* ---------------------------------------------------------------- C5
\* C5: for every branch that is not allow-listed and touched the tracked
\* file, if P differs from T and from B, the verdict is blocked, unless the
\* file is brand new (T absent, P present, created on the branch).
C5_DisagreeingEditBlocked ==
  (Returned /\ ~Allowed /\ ~FileUntouched
     /\ PinValue(P) # PinValue(T) /\ PinValue(P) # PinValue(B)
     /\ ~BrandNewFile)
    => result.shouldBlock

C5_Witness ==
  /\ Returned /\ ~Allowed /\ isModified
  /\ Absent(T) /\ ~Absent(P) /\ PinValue(P) # PinValue(B)
  /\ result.shouldBlock

\* ---------------------------------------------------------------- C6
\* C6: when the branch name matches the allow pattern, no pin value is ever
\* read and no comment or failure is ever posted, and the check returns
\* not blocked with reason allowed-branch, whatever the contents and the
\* modified, created and deleted flags are.
C6_AllowedBranchShortCircuits ==
  Allowed =>
    /\ versions = NoVersions
    /\ markdowns = <<>> /\ fails = <<>>
    /\ Returned => (~result.shouldBlock /\ result.reason = ReasonAllowed)

C6_Witness ==
  /\ Allowed /\ Returned /\ isDeleted
  /\ trunkFile # NoFile
  /\ result.reason = ReasonAllowed

\* ---------------------------------------------------------------- C7
\* C7: whenever the engine has classified versions with T absent and P
\* present, the verdict is not blocked with reason new-file if the file was
\* created on the branch, whatever the merge-base value is, and blocked if
\* it was not.
C7_NewFileExemption ==
  (Evaluated /\ Absent(T) /\ ~Absent(P))
    => IF isCreated
         THEN ~result.shouldBlock /\ result.reason = ReasonNewFile
         ELSE result.shouldBlock

C7_Witness ==
  /\ Evaluated /\ Absent(T) /\ ~Absent(P) /\ isCreated
  /\ ~Absent(B) /\ B # P
  /\ result.reason = ReasonNewFile

\* ---------------------------------------------------------------- C8
\* C8 as stated: whenever the tracked file is deleted on a branch that is
\* not allow-listed, the verdict is blocked with reason deleted, for every
\* trunk and merge-base value.
C8_AsStated ==
  (Returned /\ ~Allowed /\ isDeleted)
    => (result.shouldBlock /\ result.reason = ReasonDeleted)

\* C8 amended: whenever the tracked file is deleted on a branch that is not
\* allow-listed and the value read on trunk is present, the verdict is
\* blocked with reason deleted, for every merge-base value.
C8_DeletedBlocked ==
  (Returned /\ ~Allowed /\ isDeleted /\ ~Absent(T))
    => (result.shouldBlock /\ result.reason = ReasonDeleted)

C8_Witness ==
  /\ Returned /\ ~Allowed /\ isDeleted /\ ~Absent(T)
  /\ Absent(B)
  /\ result.shouldBlock /\ result.reason = ReasonDeleted

\* ---------------------------------------------------------------- C9
\* C9 as stated: whenever T differs from P and no merge-base value is
\* available, the verdict is blocked with reason no-common-ancestor-value.
C9_AsStated ==
  (Evaluated /\ PinValue(T) # PinValue(P) /\ Absent(B))
    => (result.shouldBlock /\ result.reason = ReasonNoBase)

\* C9 amended: whenever T differs from P, no merge-base value is available
\* (the file is absent at the merge base or the merge-base query failed),
\* the file was not deleted on the branch and is not a brand-new file, the
\* verdict is blocked with reason no-common-ancestor-value.
C9_NoCommonAncestorValue ==
  (Evaluated /\ PinValue(T) # PinValue(P) /\ Absent(B)
     /\ ~isDeleted /\ ~BrandNewFile)
    => (result.shouldBlock /\ result.reason = ReasonNoBase)

C9_Witness ==
  /\ Evaluated /\ PinValue(T) # PinValue(P) /\ ~isDeleted /\ ~BrandNewFile
  /\ ~mergeBaseOK /\ baseFile # NoFile /\ B = Null
  /\ result.shouldBlock /\ result.reason = ReasonNoBase

\* ---------------------------------------------------------------- C10
\* C10: whenever the engine has classified a touched file with T and P both
\* absent, the verdict is not blocked with reason both-missing, however the
\* absence is represented.
C10_BothMissing ==
  (Evaluated /\ Absent(T) /\ Absent(P))
    => (~result.shouldBlock /\ result.reason = ReasonBothMissing)

C12_AlwaysAVerdict ==
  /\ pc # "done" => ENABLED Next
  /\ pc \in {"start", "touched", "versions", "evaluate", "done"}
  /\ Returned => /\ result.shouldBlock \in BOOLEAN
                 /\ result.reason \in Reasons
  /\ (Evaluated /\ PinValue(T) # PinValue(P) /\ result.shouldBlock)
       => /\ Len(fails) = 1
          /\ fails[1] \in Reasons \ {ReasonAllowed, ReasonUntouched}
  /\ versions # NoVersions =>
       /\ ~pipeOK => (T = Null /\ B = Null)
       /\ ~mergeBaseOK => B = Null
       /\ trunkFile = NoFile => Absent(T)
       /\ workFile = NoFile => P = Null
       /\ baseFile = NoFile => Absent(B)

C12_Witness ==
  /\ Evaluated /\ ~mergeBaseOK /\ ~pipeOK /\ workFile # NoFile
  /\ T = Null /\ B = Null /\ Truthy(P)
  /\ result.shouldBlock /\ result.reason = ReasonNoBase

\* ------------------------------------------------- the pack job's claims
\* run() has ended by returning or through core.setFailed
RunReturned == rpc \in {"done", "failed"}

\* the job has performed the command or write
Did(step) == \E i \in 1..Len(commands) : commands[i] = step

\* the commit the dispatched target-sha names, Null when it names none
RequestedCommit ==
  IF inputs.targetSha = <<>> THEN DefaultBranchTip
  ELSE ResolveRef(inputs.targetSha)

\* the versions a file name can carry
Versions == {VersionAt(c) : c \in Commits} \cup {DefaultVersion}

\* ---------------------------------------------------------------- C13
\* C13: when run() has ended, either the artifact was renamed, the pin file
\* rewritten and the dependency entry rewritten, all for the id the run
\* resolved, or none of the three was done and pin file and package.json
\* are as they were before the run.
C13_AllOrNothing ==
  RunReturned =>
    \/ /\ Did("rename") /\ Did("writePin") /\ Did("writeManifest")
       /\ ReadLastSha(pinFile) = locals.fullSha
       /\ manifest.entry = FileReference(locals.finalPackage)
       /\ StartsWith(locals.fullSha, locals.shortSha)
    \/ /\ ~Did("rename") /\ ~Did("writePin") /\ ~Did("writeManifest")
       /\ pinFile = before.pinFile
       /\ manifest = before.manifest

\* ---------------------------------------------------------------- C14
\* C14: when validate-sha has read a previous id that is neither an ancestor
\* of nor equal to the commit the target names, then without allow-rollback
\* it fails with RollbackRejected, no command of the pipeline runs and pin
\* file and package.json stay as they were; with allow-rollback it resolves
\* the commit and reports is-rollback true.
C14_RollbackGuard ==
  (/\ guard.status # "none"
   /\ guard.lastSha # <<>>
   /\ RequestedCommit # Null
   /\ ~IsAncestorOrEqual(guard.lastSha, RequestedCommit))
    => IF inputs.allowRollback
         THEN /\ guard.status = "resolved"
              /\ guard.isRollback
              /\ guard.resolvedSha = RequestedCommit
         ELSE /\ guard.status = "RollbackRejected"
              /\ rpc = "rejected"
              /\ commands = <<>>
              /\ job \notin tempDirs
              /\ pinFile = before.pinFile
              /\ manifest = before.manifest
              /\ destFiles = before.destFiles

C14_Witness ==
  /\ rpc = "rejected" /\ guard.status = "RollbackRejected"
  /\ guard.lastSha = CommitC /\ inputs.targetSha = CommitA
  /\ ~inputs.allowRollback
  /\ job = MaxJobs

\* ---------------------------------------------------------------- C15
\* C15: validate-sha reports is-rollback false whenever no previous id is
\* recorded or the previous id is an ancestor of or equal to the commit the
\* target names, and a target equal to the previous id resolves to that id.
C15_NoFalseRollback ==
  (guard.status # "none" /\ RequestedCommit # Null) =>
    /\ (guard.lastSha = <<>>
        \/ IsAncestorOrEqual(guard.lastSha, RequestedCommit))
         => (~guard.isRollback /\ guard.status = "resolved")
    /\ guard.lastSha = RequestedCommit
         => guard.resolvedSha = guard.lastSha

C15_Witness ==
  /\ guard.status = "resolved" /\ ~guard.isRollback
  /\ guard.lastSha = CommitB /\ inputs.targetSha = CommitB
  /\ guard.resolvedSha = CommitB
  /\ rpc = "done"

\* ---------------------------------------------------------------- C16
\* C16: whenever a step replaces an id recorded in the pin file, the id
\* recorded afterwards is equal to or a descendant of the replaced one,
\* unless the job was dispatched with allow-rollback.
C16_Monotonic ==
  [][(pinFile' # pinFile /\ ReadLastSha(pinFile) # <<>>)
       => \/ IsAncestorOrEqual(ReadLastSha(pinFile), ReadLastSha(pinFile'))
          \/ inputs.allowRollback]_vars

\* ---------------------------------------------------------------- C17
\* C17: when a run has ended, by returning, by failing or by being
\* cancelled, the temporary directory it created does not exist.
C17_WorkspaceRemoved ==
  rpc \in {"done", "failed", "cancelled"} => job \notin tempDirs

IsTraceablePath(path, name, short) ==
  \E version \in Versions :
    path = PackDestination \o <<"/">> \o CleanName(name) \o <<"-">>
             \o version \o <<"-">> \o short \o TgzSuffix

C20_NoCollision ==
  \A i, j \in 1..Len(artifacts) :
    (i < j /\ artifacts[i].fullSha # artifacts[j].fullSha)
      => /\ artifacts[i].packageFile # artifacts[j].packageFile
         /\ artifacts[i].packageFile
              # PathJoin(PackDestination, artifacts[j].packedFile)

\* ---------------------------------------------------------------- C21
\* the change log lists, newest first and once each, the commits reachable
\* from the resolved id and not from the previous id
IsRangeLog(log, last, full) ==
  /\ {log[i] : i \in 1..Len(log)}
       = {c \in Commits : /\ IsAncestorOrEqual(c, full)
                          /\ ~IsAncestorOrEqual(c, last)}
  /\ \A i, j \in 1..Len(log) :
       i < j => (log[i] # log[j] /\ ~IsAncestorOrEqual(log[i], log[j]))

C22_FailureAborts ==
  /\ Did("warning") => (~Did("install") /\ rpc # "done")
  /\ locals.error # "" => rpc \in {"cleanup", "failed", "cancelled"}
  /\ rpc = "failed" =>
       /\ failed # ""
       /\ pinFile = before.pinFile
       /\ manifest = before.manifest

\* ---------------------------------------------------------------- C23
\* the command was performed, and before any of the later commands
Precedes(step, later) ==
  \E i \in 1..Len(commands) :
    /\ commands[i] = step
    /\ \A j \in 1..Len(commands) : commands[j] \in later => i < j

\* C23: in every run each command runs at most once; install runs only
\* after a successful checkout of the target, the package command only
\* after a successful install, the pack command only after a successful
\* install and, if a package command is given, after that command has
\* succeeded; the checkout leaves the commit the target names in HEAD.
C23_StepOrder ==
  /\ \A i, j \in 1..Len(commands) : commands[i] = commands[j] => i = j
  /\ Did("checkout") => locals.head = ResolveRef(locals.checkoutTarget)
  /\ (Did("install") \/ rpc \in {"install", "package", "mkdir", "pack"})
       => Precedes("checkout", {"install", "package", "pack"})
  /\ (Did("package") \/ rpc \in {"package", "mkdir", "pack"})
       => Precedes("install", {"package", "pack"})
  /\ (Did("pack") /\ inputs.packageCommand)
       => Precedes("package", {"pack"})
  /\ (Did("package") => inputs.packageCommand)

C23_Witness ==
  /\ rpc = "done"
  /\ commands = <<"clone", "checkout", "install", "package", "pack",
                  "writePin">>

\* ---------------------------------------------------------------- C24
\* the first line of a text that is not blank, '' when there is none
FirstNonBlankLine(text) ==
  LET lines == Lines(text)
      full == {i \in 1..Len(lines) : Trim(lines[i]) # <<>>}
  IN IF full = {} THEN <<>>
     ELSE lines[CHOOSE i \in full : \A j \in full : i <= j]

\* C24: a version file the pipeline wrote for commit X has X as its first
\* non-blank line; the pipeline's reader and the engine's readers of the
\* trunk, the working tree and the merge base each read X from it; and a
\* file written for X and a file written for another commit are never read
\* as the same version.
C24_RoundTrip ==
  \A n \in PackageNames, X \in Commits :
    /\ workFile = FileContent(n, X) =>
         /\ FirstNonBlankLine(workFile) = X
         /\ ReadLastSha(pinFile) = X
         /\ versions # NoVersions => P = X
    /\ (trunkFile = FileContent(n, X) /\ pipeOK /\ versions # NoVersions)
         => T = X
    /\ (baseFile = FileContent(n, X) /\ pipeOK /\ mergeBaseOK
          /\ versions # NoVersions)
         => B = X
    /\ \A m \in PackageNames, Y \in Commits \ {X} :
         (trunkFile = FileContent(n, X) /\ workFile = FileContent(m, Y)
           /\ pipeOK /\ versions # NoVersions)
           => T # P

\* ---------------------------------------------------------------- C27
\* C27: when the engine has classified a file whose proposed value equals
\* the merge-base value while the trunk value differs from it, the verdict
\* is not blocked, whatever the file lists say; and reason divergent-edit is
\* returned only when the merge-base value differs from both other values.
C27_StaleNeverBlocked ==
  /\ (Evaluated /\ Truthy(P) /\ P = B /\ T # B) => ~result.shouldBlock
  /\ (Returned /\ result.reason = ReasonDivergent) => (B # T /\ B # P)

\* ---------------------------------------------------------------- C28
\* C28: the file a run selects is one its own pack command wrote, also when
\* the destination holds files of earlier runs; so a run whose pack command
\* wrote no .tgz file selects nothing and fails with 'No packed file found'.
C28_OwnArtifact ==
  /\ locals.packedFile # <<>> => locals.packedFile \in locals.deposit
  /\ (rpc \in {"cleanup", "failed", "done"} /\ Did("pack")
        /\ TgzFiles(locals.deposit) = {} /\ locals.error # "readdir failed")
       => (rpc # "done" /\ locals.error = "No packed file found")

\* ---------------------------------------------------------------- C29
\* C29: on every pull request the JavaScript plugin and the TypeScript
\* plugin return the same blocked flag and the same reason, and post a
\* comment and a failure in exactly the same cases.
C29_TwinsAgree ==
  (Returned /\ twin.returned) =>
    /\ twin.shouldBlock = result.shouldBlock
    /\ twin.reason = result.reason
    /\ twin.markdowns = markdowns
    /\ twin.fails = fails

\* both plugins have blocked a request that reached the evaluation
C29_Witness ==
  /\ Evaluated /\ twin.returned
  /\ twin.shouldBlock /\ twin.reason = ReasonDivergent
  /\ twin.markdowns # <<>>

\* ------------------------------------------------------- C26 and C30
\* the CheckResult checkPackVersion returns for a config on the pull
\* request at hand
VerdictOf(config) ==
  LET file == repo[PathOf(config)]
      path == PathOf(config)
      v == getVersions(file.trunk, file.work, file.base, mergeBaseOK, pipeOK)
      e == evaluateBlockingConditions(v, path \in created_files,
                                      path \in deleted_files)
  IN IF BranchAllowed(config.allowPattern, branchName)
       THEN [NoResult EXCEPT !.reason = ReasonAllowed]
     ELSE IF Untouched(path \in modified_files, path \in created_files,
                       path \in deleted_files)
       THEN [NoResult EXCEPT !.reason = ReasonUntouched]
     ELSE [shouldBlock |-> e.shouldBlock, reason |-> e.reason,
           mainVersion |-> v.main, prVersion |-> v.pr, baseVersion |-> v.base]

MultipleReturned == multi.pc = "returned"

\* a result without its tag
Untagged(r) ==
  [shouldBlock |-> r.shouldBlock, reason |-> r.reason,
   mainVersion |-> r.mainVersion, prVersion |-> r.prVersion,
   baseVersion |-> r.baseVersion]

C30_NeverHides ==
  MultipleReturned =>
    /\ \A config \in {UiConfig, RegistryConfig} :
         VerdictOf(config).shouldBlock => multi.hasFailures
    /\ \A config \in {UiConfig, RegistryConfig} :
         (\A i \in 1..Len(multi.configs) : multi.configs[i] # config)
           => /\ repo[config.filePath].status = "none"
              /\ config = UiConfig => UiSourceFile \notin modified_files
              /\ config = RegistryConfig
                   => RegistrySourceFile \notin modified_files

\* ---------------------------------------------------------------- C25
\* C25: the sweep returns one verdict per open change request that targets
\* the base branch and carries the label when a filter is given, each the
\* engine's verdict for that request; anyBlocked is true exactly when one
\* of the verdicts is blocked; no comment or failure is posted.
C25_OneVerdictPerRequest ==
  sweep.pc = "returned" =>
    /\ \A i \in 1..Len(sweep.requests) :
         Cardinality({k \in 1..Len(sweep.verdicts) :
                        sweep.verdicts[k].request = i})
           = IF Covered(sweep.requests[i], sweep.labelFilter) THEN 1 ELSE 0
    /\ \A k \in 1..Len(sweep.verdicts) :
         LET verdict == EngineVerdict(sweep.requests[sweep.verdicts[k].request],
                                      sweep.trunk)
         IN /\ sweep.verdicts[k].blocked = verdict.blocked
            /\ sweep.verdicts[k].reason = verdict.reason
    /\ sweep.anyBlocked
         <=> \E k \in 1..Len(sweep.verdicts) : sweep.verdicts[k].blocked
    /\ markdowns = <<>> /\ fails = <<>>

\* a sweep with a label filter over two open requests on the base branch,
\* one without the label, that returned one blocked verdict
C25_Witness ==
  /\ sweep.pc = "returned"
  /\ sweep.labelFilter = SweepLabel
  /\ Len(sweep.requests) = 2
  /\ \A i \in 1..2 : /\ sweep.requests[i].state = "open"
                      /\ sweep.requests[i].base = BaseBranch
  /\ sweep.requests[1].labels = {}
  /\ Len(sweep.verdicts) = 1
  /\ sweep.verdicts[1].request = 2
  /\ sweep.verdicts[1].blocked
  /\ sweep.anyBlocked

====
